---- MODULE Spec2Model ----
(***************************************************************************)
(* A model of three parts of the Skytable server:                           *)
(*   - Parser  (src/server/src/protocol/parserv2.rs): a cursor over a      *)
(*     borrowed byte buffer that decodes the metaframe and the action      *)
(*     group headers of the wire protocol;                                 *)
(*   - IArray  (src/server/src/coredb/iarray.rs): a growable array that    *)
(*     lives inline up to N elements and on the heap beyond;               *)
(*   - execute_simple (src/server/src/queryengine/mod.rs): the dispatch of *)
(*     a simple query to the handler of its verb.                          *)
(* Every method is an operator from the state before the call to the state *)
(* after it, written branch by branch from the Rust source, and an action  *)
(* applies it to the variables.                                            *)
(***************************************************************************)
EXTENDS Integers, Sequences, FiniteSets, TLC

VARIABLES
    buffer,   \* Parser: the borrowed bytes
    cursor,   \* Parser: the cursor
    ret,      \* Parser: the last call, its arguments and what it returned
    x,        \* an IArray
    y,        \* a second IArray, of another inline capacity
    aret,     \* IArray: the last call, its arguments and what it returned
    xlog,     \* history: the values handed to x and not popped since, in order
    ylog,     \* history: the same for y
    query,    \* execute_simple: the element of the last call
    con,      \* the connection: the responses written to it, in order
    invoked   \* the action handlers called, each with the items it was passed

pvars == <<buffer, cursor, ret>>
avars == <<x, y, aret, xlog, ylog>>
qvars == <<query, con, invoked>>
vars == <<buffer, cursor, ret, x, y, aret, xlog, ylog, query, con, invoked>>

(***************************************************************************)
(* Bytes of the wire protocol.                                             *)
(***************************************************************************)
LF == 10
HASH == 35
BANG == 33
AMP == 38
ASCII_ZERO == 48

\* The bytes the enumerated buffers are made of: the four structural bytes,
\* the digits '0', '1', '2' and one byte above '9' ('x').
Bytes == {LF, HASH, BANG, AMP, 48, 49, 50, 120}

\* Longest enumerated buffer.
MaxBuf == 3
\* Largest argument given to read_until.
MaxUntil == 2
\* Counts 0..MaxCount are framed (together with CountSamples).
MaxCount == 12
\* Longest run of bytes that follows a well-formed header in a buffer.
MaxTail == 1

(***************************************************************************)
(* Parser                                                                  *)
(***************************************************************************)

\* Parser::new: cursor 0 over the borrowed buffer; no call made yet.
ParserNew(buf) ==
    [buffer |-> buf, cursor |-> 0,
     ret |-> [op |-> "new", from |-> 0, arg |-> 0, res |-> "Ok", val |-> 0,
              lo |-> 0, hi |-> 0]]

\* incr_cursor: self.cursor += 1, with no bounds check.
incr_cursor(cur) == cur + 1

\* A read_until that wants one byte more than it takes.
read_until_strict(buf, cur, until) ==
    IF cur + until < Len(buf)
    THEN [cursor |-> cur + until, res |-> "Ok", lo |-> cur, hi |-> cur + until]
    ELSE [cursor |-> cur, res |-> "NotEnough", lo |-> cur, hi |-> cur]

\* read_until: buffer.get(cursor..cursor+until); Some -> advance by until,
\* None (the range ends past the buffer) -> NotEnough, cursor unchanged.
read_until(buf, cur, until) ==
    IF cur + until <= Len(buf)
    THEN [cursor |-> cur + until, res |-> "Ok", lo |-> cur, hi |-> cur + until]
    ELSE [cursor |-> cur, res |-> "NotEnough", lo |-> cur, hi |-> cur]

\* The loop of read_line from cursor cur with the running stopped_at.
RECURSIVE read_line_loop(_, _, _)
read_line_loop(buf, cur, stopped_at) ==
    IF cur < Len(buf)
    THEN IF buf[cur + 1] = LF
         THEN [cursor |-> incr_cursor(cur), stopped_at |-> stopped_at]
         ELSE read_line_loop(buf, incr_cursor(cur), stopped_at + 1)
    ELSE [cursor |-> cur, stopped_at |-> stopped_at]

\* A read_line that leaves the cursor on the newline instead of after it.
read_line_keeps_newline(buf, cur) ==
    LET l == read_line_loop(buf, cur, cur)
    IN  [cursor |-> l.stopped_at, started_at |-> cur, stopped_at |-> l.stopped_at]

\* read_line: (started_at, stopped_at) of the line at the cursor; the cursor
\* ends after the newline, or at the end of the buffer when there is none.
read_line(buf, cur) ==
    LET l == read_line_loop(buf, cur, cur)
    IN  [cursor |-> l.cursor, started_at |-> cur, stopped_at |-> l.stopped_at]

\* A digit loop that counts a byte below '0' as the digit 0.
RECURSIVE parse_digits_accepts_low(_, _, _)
parse_digits_accepts_low(bytes, i, item_usize) ==
    IF i > Len(bytes)
    THEN [res |-> "Ok", val |-> item_usize]
    ELSE IF bytes[i] < ASCII_ZERO
         THEN parse_digits_accepts_low(bytes, i + 1, item_usize * 10)
         ELSE IF bytes[i] - ASCII_ZERO > 9
              THEN [res |-> "UnexpectedByte", val |-> 0]
              ELSE parse_digits_accepts_low(bytes, i + 1,
                                            (item_usize * 10) + (bytes[i] - ASCII_ZERO))

\* The loop of parse_into_usize: bytes[i..] folded into item_usize.
RECURSIVE parse_digits(_, _, _)
parse_digits(bytes, i, item_usize) ==
    IF i > Len(bytes)
    THEN [res |-> "Ok", val |-> item_usize]
    ELSE IF bytes[i] < ASCII_ZERO
         THEN [res |-> "UnexpectedByte", val |-> 0]    \* checked_sub(48) = None
         ELSE IF bytes[i] - ASCII_ZERO > 9
              THEN [res |-> "UnexpectedByte", val |-> 0]
              ELSE parse_digits(bytes, i + 1, (item_usize * 10) + (bytes[i] - ASCII_ZERO))

\* A parse_into_usize that forgets to shift the accumulator.
parse_into_usize_no_shift(bytes) ==
    IF \E i \in 1..Len(bytes) : bytes[i] < ASCII_ZERO \/ bytes[i] - ASCII_ZERO > 9
    THEN [res |-> "UnexpectedByte", val |-> 0]
    ELSE [res |-> "Ok", val |-> IF bytes = <<>> THEN 0 ELSE bytes[Len(bytes)] - ASCII_ZERO]

\* parse_into_usize: base-10 value of the bytes; an empty slice is Ok(0).
\* (The accumulator is a usize; no enumerated input is long enough to
\* overflow it.)
parse_into_usize(bytes) == parse_digits(bytes, 1, 0)

\* buffer[lo..hi] as a sequence (Rust's half-open, 0-based range).
Slice(buf, lo, hi) == SubSeq(buf, lo + 1, hi)

\* read_sizeline: a '#' at the cursor, then the rest of the line as a usize.
read_sizeline(buf, cur) ==
    IF cur < Len(buf) /\ buf[cur + 1] = HASH
    THEN LET l == read_line(buf, incr_cursor(cur))
             p == parse_into_usize(Slice(buf, l.started_at, l.stopped_at))
         IN  [cursor |-> l.cursor, res |-> p.res, val |-> p.val]
    ELSE [cursor |-> cur, res |-> "UnexpectedByte", val |-> 0]

\* A frame parser that takes the line whatever its first byte is.
parse_typed_any_type(buf, cur, type_byte) ==
    LET s == read_sizeline(buf, cur)
    IN  IF s.res # "Ok"
        THEN [cursor |-> s.cursor, res |-> s.res, val |-> 0]
        ELSE LET u == read_until(buf, s.cursor, s.val)
             IN  IF u.res # "Ok"
                 THEN [cursor |-> u.cursor, res |-> u.res, val |-> 0]
                 ELSE LET our_chunk == Slice(buf, u.lo, u.hi)
                      IN  IF Len(our_chunk) = 0
                          THEN [cursor |-> u.cursor, res |-> "Panic", val |-> 0]
                          ELSE LET p == parse_into_usize(Tail(our_chunk))
                               IN  IF p.res # "Ok"
                                   THEN [cursor |-> u.cursor, res |-> p.res, val |-> 0]
                                   ELSE [cursor |-> incr_cursor(u.cursor),
                                         res |-> "Ok", val |-> p.val]

\* A frame parser that leaves the cursor on the newline closing its line.
parse_typed_stops_at_newline(buf, cur, type_byte) ==
    LET s == read_sizeline(buf, cur)
    IN  IF s.res # "Ok"
        THEN [cursor |-> s.cursor, res |-> s.res, val |-> 0]
        ELSE LET u == read_until(buf, s.cursor, s.val)
             IN  IF u.res # "Ok"
                 THEN [cursor |-> u.cursor, res |-> u.res, val |-> 0]
                 ELSE LET our_chunk == Slice(buf, u.lo, u.hi)
                      IN  IF Len(our_chunk) = 0
                          THEN [cursor |-> u.cursor, res |-> "Panic", val |-> 0]
                          ELSE IF our_chunk[1] = type_byte
                               THEN LET p == parse_into_usize(Tail(our_chunk))
                                    IN  IF p.res # "Ok"
                                        THEN [cursor |-> u.cursor, res |-> p.res, val |-> 0]
                                        ELSE [cursor |-> u.cursor, res |-> "Ok",
                                              val |-> p.val]
                               ELSE [cursor |-> u.cursor, res |-> "UnexpectedByte",
                                     val |-> 0]

\* The shared body of parse_metaframe and parse_actiongroup_size, which differ
\* only in the type byte they compare our_chunk[0] with. "Panic" is the
\* index-out-of-bounds abort of our_chunk[0] on an empty chunk.
parse_typed(buf, cur, type_byte) ==
    LET s == read_sizeline(buf, cur)
    IN  IF s.res # "Ok"
        THEN [cursor |-> s.cursor, res |-> s.res, val |-> 0]
        ELSE LET u == read_until(buf, s.cursor, s.val)
             IN  IF u.res # "Ok"
                 THEN [cursor |-> u.cursor, res |-> u.res, val |-> 0]
                 ELSE LET our_chunk == Slice(buf, u.lo, u.hi)
                      IN  IF Len(our_chunk) = 0
                          THEN [cursor |-> u.cursor, res |-> "Panic", val |-> 0]
                          ELSE IF our_chunk[1] = type_byte
                               THEN LET p == parse_into_usize(Tail(our_chunk))
                                    IN  IF p.res # "Ok"
                                        THEN [cursor |-> u.cursor, res |-> p.res, val |-> 0]
                                        ELSE [cursor |-> incr_cursor(u.cursor),
                                              res |-> "Ok", val |-> p.val]
                               ELSE [cursor |-> u.cursor, res |-> "UnexpectedByte",
                                     val |-> 0]

parse_metaframe(buf, cur) == parse_typed(buf, cur, BANG)

parse_actiongroup_size(buf, cur) == parse_typed(buf, cur, AMP)

(***************************************************************************)
(* The wire grammar, used to build well-formed input.                      *)
(***************************************************************************)

\* The ASCII decimal digits of n, most significant first.
RECURSIVE Digits(_)
Digits(n) == IF n < 10 THEN <<ASCII_ZERO + n>>
             ELSE Append(Digits(n \div 10), ASCII_ZERO + (n % 10))

\* '#' m LF T n LF with m the byte length of the line "T n".
Header(type_byte, n) ==
    LET line == <<type_byte>> \o Digits(n)
    IN  <<HASH>> \o Digits(Len(line)) \o <<LF>> \o line \o <<LF>>

\* Counts with 3, 5, 8 and 9 digits (the last makes m two digits long).
CountSamples == {100, 12345, 99999999, 123456789}

Counts == (0..MaxCount) \cup CountSamples

RECURSIVE SeqsUpTo(_, _)
SeqsUpTo(S, n) ==
    IF n = 0 THEN {<<>>}
    ELSE LET shorter == SeqsUpTo(S, n - 1)
         IN  shorter \cup {Append(s, b) : s \in {t \in shorter : Len(t) = n - 1}, b \in S}

IsPrefix(p, s) == Len(p) <= Len(s) /\ SubSeq(s, 1, Len(p)) = p

\* Well-formed headers of either type, each followed by any short tail.
FramedBuffers ==
    {Header(t, n) \o tail : t \in {BANG, AMP}, n \in Counts,
                            tail \in SeqsUpTo({LF, HASH, 50}, MaxTail)}

\* Well-formed headers cut short: what a reader holds before the rest arrives.
TruncatedBuffers ==
    UNION {{SubSeq(h, 1, k) : k \in 0..Len(h)} :
              h \in {Header(t, n) : t \in {BANG, AMP}, n \in Counts}}

\* Well-formed headers with one byte replaced by another.
MutatedBuffers ==
    UNION {{[h EXCEPT ![k] = b] : k \in 1..Len(h), b \in Bytes} :
              h \in {Header(t, n) : t \in {BANG, AMP}, n \in 0..MaxCount}}

\* Most action groups in one query.
MaxGroups == 2

\* Action counts of the groups of a query: 1, 2 and 5 digits.
GroupCounts == {0, 12, 12345}

\* The headers of a query: a metaframe announcing m, then one action-group
\* header per entry of groups.
QueryHeaders(m, groups) ==
    <<Header(BANG, m)>> \o [i \in 1..Len(groups) |-> Header(AMP, groups[i])]

RECURSIVE Concat(_)
Concat(ss) == IF ss = <<>> THEN <<>> ELSE Head(ss) \o Concat(Tail(ss))

\* A well-formed metaframe followed by up to MaxGroups well-formed
\* action-group headers, and nothing else.
QueryShapes == (0..MaxGroups) \X SeqsUpTo(GroupCounts, MaxGroups)

QueryBytes == [q \in QueryShapes |-> Concat(QueryHeaders(q[1], q[2]))]

QueryBuffers == {QueryBytes[q] : q \in QueryShapes}

\* The buffers a parser is constructed over: every short byte string, the
\* well-formed headers as they are, cut short, and with one byte wrong, and
\* the header sequences of whole queries.
Buffers ==
    SeqsUpTo(Bytes, MaxBuf) \cup FramedBuffers \cup TruncatedBuffers \cup MutatedBuffers
        \cup QueryBuffers


(***************************************************************************)
(* IArray                                                                  *)
(***************************************************************************)
\* Inline capacities the arrays are instantiated with: the two smallest of
\* the sizes MemoryBlock is implemented for.
StackSizes == {2, 4}

\* The inline capacity of the array x that the calls are made on.
SmallN == 2

\* No call makes an array longer than MaxLen.
MaxLen == 5
\* Longest slice, iterator or Vec handed to a call.
MaxSlice == 2
\* Largest spare capacity of a Vec given to from_vec.
MaxSpare == 1
\* Largest `additional` given to reserve and largest size_hint lower bound.
MaxReserve == 2
\* A length read back from bytes that hold no length is at most N + MaxWild.
MaxWild == 1

\* Element values: two, so that every position of a sequence can differ from
\* its neighbours.
Vals == {1, 2}

\* A slot that holds no initialised element (MaybeUninit::uninit(), or a
\* slot whose element was moved out or dropped).
Uninit == 0
\* Bytes that were never written by this array: what a read outside its
\* storage, or through a pointer that is none, yields.
Garbage == -1

Blank(n) == [i \in 1..n |-> Uninit]

Pad(s, n) == [i \in 1..n |-> IF i <= Len(s) THEN s[i] ELSE Uninit]

\* No heap block.
NoBlock == [live |-> FALSE, size |-> 0, slots |-> <<>>]

\* A panic or an undefined behaviour met during a call is recorded; the array
\* is not used after it.
Fault(a, f) == [a EXCEPT !.faults = @ \cup {f}]

Faulted(a) == a.faults # {}

\* InlineArray::from_stack(MaybeUninit::uninit()): the union now holds the
\* inline slots, none of them initialised. The (pointer, length) view of the
\* same bytes has no defined value; it is kept as ("none", 0) and every read
\* of it goes through heap(), which does not use these.
from_stack(a) ==
    [a EXCEPT !.shape = "stack", !.stack = Blank(a.N),
              !.heap_ptr = "none", !.heap_len = 0]

\* InlineArray::from_heap_ptr(start_ptr, len): the union now holds the pair,
\* and the inline slots are no longer there.
from_heap_ptr(a, start_ptr, l) ==
    [a EXCEPT !.shape = "heap", !.stack = Blank(a.N),
              !.heap_ptr = start_ptr, !.heap_len = l]

\* InlineArray::heap(): the union read as (pointer, length). When the union
\* holds inline slots this reinterprets their bytes: the pointer is wild and
\* the length is whatever those bytes spell, w.
heap(a, w) ==
    IF a.shape = "heap"
    THEN [ptr |-> a.heap_ptr, len |-> a.heap_len]
    ELSE [ptr |-> "wild", len |-> w]

\* IArray::new: inline, cap = 0. needs_drop says whether the element type has
\* a destructor (it has none when the type is Copy).
new(N, needs_drop) ==
    [N |-> N, needs_drop |-> needs_drop, alive |-> TRUE,
     cap |-> 0, shape |-> "stack", stack |-> Blank(N),
     heap_ptr |-> "none", heap_len |-> 0, mem |-> NoBlock,
     drops |-> <<>>, taken |-> <<>>, faults |-> {}]

\* stack_capacity for an element type that is not zero-sized: A::size().
stack_capacity(a) == a.N

went_off_stack(a) == a.cap > stack_capacity(a)

\* meta_triple / meta_triple_mut: (data pointer, length, capacity), and which
\* field the length lives in.
meta_triple(a) ==
    IF went_off_stack(a)
    THEN [ptr |-> a.heap_ptr, len |-> a.heap_len, lenref |-> "heap", cap |-> a.cap]
    ELSE [ptr |-> "stack", len |-> a.cap, lenref |-> "cap", cap |-> stack_capacity(a)]

get_data_ptr_mut(a) == IF went_off_stack(a) THEN a.heap_ptr ELSE "stack"

len(a) == IF went_off_stack(a) THEN a.heap_len ELSE a.cap

is_empty(a) == len(a) = 0

get_capacity(a) == IF went_off_stack(a) THEN a.cap ELSE stack_capacity(a)

\* Whether slot i (0-based) of the storage ptr points to exists.
InBounds(a, ptr, i) ==
    \/ ptr = "stack" /\ a.shape = "stack" /\ i >= 0 /\ i < a.N
    \/ ptr = "blk" /\ a.mem.live /\ i >= 0 /\ i < a.mem.size

\* ptr::read(ptr.add(i)).
Load(a, ptr, i) ==
    IF ~InBounds(a, ptr, i) THEN Garbage
    ELSE IF ptr = "stack" THEN a.stack[i + 1] ELSE a.mem.slots[i + 1]

\* ptr::write(ptr.add(i), v); a write outside the storage is recorded.
Store(a, ptr, i, v) ==
    IF ~InBounds(a, ptr, i) THEN Fault(a, "oob_write")
    ELSE IF ptr = "stack" THEN [a EXCEPT !.stack[i + 1] = v]
         ELSE [a EXCEPT !.mem.slots[i + 1] = v]

\* Writes vs[1..] to slots at, at+1, ...
RECURSIVE StoreRun(_, _, _, _)
StoreRun(a, ptr, at, vs) ==
    IF vs = <<>> THEN a
    ELSE StoreRun(Store(a, ptr, at, Head(vs)), ptr, at + 1, Tail(vs))

\* *len = n through the length reference meta_triple_mut handed out.
SetLen(a, lenref, n) ==
    IF lenref = "heap" THEN [a EXCEPT !.heap_len = n] ELSE [a EXCEPT !.cap = n]

\* IArray::set_len.
set_len(a, new_len) == SetLen(a, meta_triple(a).lenref, new_len)

\* Deref: slice::from_raw_parts(start_ptr, len).
deref(a) ==
    LET t == meta_triple(a)
    IN  [i \in 1..t.len |-> Load(a, t.ptr, i - 1)]

\* dealloc(start_ptr, capacity): releases the block start_ptr points to.
dealloc(a, start_ptr) ==
    IF start_ptr = "blk" /\ a.mem.live
    THEN [a EXCEPT !.mem = NoBlock]
    ELSE Fault(a, "bad_free")

RECURSIVE Pow2From(_, _)
Pow2From(p, n) == IF p >= n THEN p ELSE Pow2From(2 * p, n)

\* usize::next_power_of_two.
next_power_of_two(n) == Pow2From(1, n)

\* A grow_block that copies one element too few when it leaves the stack.
grow_block_drops_last(a, new_cap) ==
    LET t == meta_triple(a)
    IN  IF ~(new_cap > t.len) THEN Fault(a, "panic")
        ELSE IF new_cap <= stack_capacity(a) \/ new_cap = t.cap THEN a
        ELSE IF ~went_off_stack(a)
             THEN [from_heap_ptr(a, "blk", t.len) EXCEPT
                      !.mem = [live |-> TRUE, size |-> new_cap,
                               slots |-> Pad(SubSeq(a.stack, 1, t.len - 1), new_cap)],
                      !.cap = new_cap]
             ELSE [from_heap_ptr(a, t.ptr, t.len) EXCEPT
                      !.mem = [live |-> TRUE, size |-> new_cap,
                               slots |-> Pad(SubSeq(a.mem.slots, 1, t.len), new_cap)],
                      !.cap = new_cap]

\* grow_block: the four cases over (still on the stack?, new_cap <= N?).
grow_block(a, new_cap) ==
    LET t == meta_triple(a)
        still_on_stack == ~went_off_stack(a)
    IN  IF ~(new_cap > t.len) THEN Fault(a, "panic")       \* assert!(new_cap > len)
        ELSE IF new_cap <= stack_capacity(a)
        THEN IF still_on_stack THEN a
             ELSE \* heap -> stack: copy len elements in, cap = len, free the block
                  LET moved == [i \in 1..t.len |-> Load(a, t.ptr, i - 1)]
                      b == StoreRun(from_stack(a), "stack", 0, moved)
                  IN  dealloc([b EXCEPT !.cap = t.len], t.ptr)
        ELSE IF new_cap # t.cap
        THEN IF still_on_stack
             THEN \* stack -> heap: alloc(new_cap), copy len elements
                  [from_heap_ptr(a, "blk", t.len) EXCEPT
                      !.mem = [live |-> TRUE, size |-> new_cap,
                               slots |-> Pad(SubSeq(a.stack, 1, t.len), new_cap)],
                      !.cap = new_cap]
             ELSE \* heap -> heap: realloc keeps the first len elements
                  [from_heap_ptr(a, t.ptr, t.len) EXCEPT
                      !.mem = [live |-> TRUE, size |-> new_cap,
                               slots |-> Pad(SubSeq(a.mem.slots, 1, t.len), new_cap)],
                      !.cap = new_cap]
        ELSE a

\* A reserve that grows to exactly len + additional.
reserve_exact(a, additional) ==
    LET t == meta_triple(a)
    IN  IF t.cap - t.len >= additional THEN a
        ELSE grow_block(a, t.len + additional)

\* reserve: nothing when the spare capacity suffices, else grow to the next
\* power of two of len + additional.
reserve(a, additional) ==
    LET t == meta_triple(a)
    IN  IF t.cap - t.len >= additional THEN a
        ELSE grow_block(a, next_power_of_two(t.len + additional))

\* drop_in_place of one element: its destructor runs (when it has one).
drop_in_place(a, v) ==
    IF a.needs_drop THEN [a EXCEPT !.drops = Append(@, v)] ELSE a

RECURSIVE drop_run(_, _)
drop_run(a, vs) ==
    IF vs = <<>> THEN a ELSE drop_run(drop_in_place(a, Head(vs)), Tail(vs))

\* A Vec<T>: its elements and its capacity (>= its length).
Vecs(S) == {[elems |-> s, capacity |-> Len(s) + k] : s \in S, k \in 0..MaxSpare}

\* from_vec: a Vec whose capacity fits is copied inline and then goes out of
\* scope, which runs its elements' destructors and frees its buffer; a larger
\* one is forgotten and its buffer adopted.
from_vec(N, needs_drop, vec) ==
    LET a == new(N, needs_drop)
    IN  IF vec.capacity <= stack_capacity(a)
        THEN drop_run([StoreRun(a, "stack", 0, vec.elems) EXCEPT !.cap = Len(vec.elems)],
                      vec.elems)
        ELSE [from_heap_ptr(a, "blk", Len(vec.elems)) EXCEPT
                 !.mem = [live |-> TRUE, size |-> vec.capacity,
                          slots |-> Pad(vec.elems, vec.capacity)],
                 !.cap = vec.capacity]

\* from_slice (Copy elements): inline when the slice fits, else slice.to_vec()
\* is leaked and adopted; to_vec allocates exactly slice.len() elements.
from_slice(N, slice) ==
    LET a == new(N, FALSE)
        slice_len == Len(slice)
    IN  IF slice_len <= stack_capacity(a)
        THEN [StoreRun(a, "stack", 0, slice) EXCEPT !.cap = slice_len]
        ELSE [from_heap_ptr(a, "blk", slice_len) EXCEPT
                 !.mem = [live |-> TRUE, size |-> slice_len, slots |-> slice],
                 !.cap = slice_len]

\* A push that writes the new element one slot too low.
push_overwrites_last(a, val) ==
    LET t == meta_triple(a)
        grown == t.len = t.cap
        b == IF grown THEN reserve(a, 1) ELSE a
        at == IF t.len = 0 THEN 0 ELSE t.len - 1
    IN  SetLen(Store(b, IF grown THEN b.heap_ptr ELSE t.ptr, at, val),
               IF grown THEN "heap" ELSE t.lenref, t.len + 1)

\* push: when full, reserve(1) and re-read pointer and length from the heap
\* pair; write at index len; len += 1.
push(a, val) ==
    LET t == meta_triple(a)
        grown == t.len = t.cap
        b == IF grown THEN reserve(a, 1) ELSE a
    IN  IF Faulted(b) THEN b
        ELSE IF grown /\ b.shape # "heap" THEN Fault(b, "type_confusion")
        ELSE LET data_ptr == IF grown THEN b.heap_ptr ELSE t.ptr
                 lenref == IF grown THEN "heap" ELSE t.lenref
                 l == IF grown THEN b.heap_len ELSE t.len
             IN  SetLen(Store(b, data_ptr, l, val), lenref, l + 1)

RECURSIVE push_all(_, _)
push_all(a, vs) ==
    IF vs = <<>> \/ Faulted(a) THEN a ELSE push_all(push(a, Head(vs)), Tail(vs))

\* What pop returns: None (Uninit here) on an empty array, else the last element.
pop_value(a) ==
    LET t == meta_triple(a)
    IN  IF t.len = 0 THEN Uninit ELSE Load(a, t.ptr, t.len - 1)

\* A pop that forgets to shorten the array.
pop_keeps_len(a) ==
    LET t == meta_triple(a)
    IN  IF t.len = 0 THEN a
        ELSE [a EXCEPT !.taken = IF a.needs_drop THEN Append(@, pop_value(a)) ELSE @]

\* pop: len -= 1, then the element at the new len is moved out (not dropped).
pop(a) ==
    LET t == meta_triple(a)
    IN  IF t.len = 0 THEN a
        ELSE LET last_index == t.len - 1
                 b == SetLen(a, t.lenref, last_index)
                 c == Store(b, t.ptr, last_index, Uninit)
             IN  [c EXCEPT !.taken = IF a.needs_drop THEN Append(@, pop_value(a)) ELSE @]

\* A truncate that runs the destructors from index target_len upwards.
truncate_front_to_back(a, target_len) ==
    LET t == meta_triple(a)
    IN  IF target_len < t.len
        THEN LET gone == [i \in 1..(t.len - target_len) |->
                             Load(a, t.ptr, target_len + i - 1)]
                 b == drop_run(a, gone)
                 c == StoreRun(b, t.ptr, target_len,
                               [i \in 1..(t.len - target_len) |-> Uninit])
             IN  SetLen(c, t.lenref, target_len)
        ELSE a

\* A truncate that lowers the length without running the destructors.
truncate_forgets(a, target_len) ==
    IF target_len < len(a) THEN set_len(a, target_len) ELSE a

\* truncate: while target_len < len, drop the last element in place and
\* lower the length by one.
RECURSIVE truncate(_, _)
truncate(a, target_len) ==
    LET t == meta_triple(a)
    IN  IF target_len < t.len
        THEN LET last_index == t.len - 1
                 b == drop_in_place(a, Load(a, t.ptr, last_index))
                 c == Store(b, t.ptr, last_index, Uninit)
             IN  truncate(SetLen(c, t.lenref, last_index), target_len)
        ELSE a

clear(a) == truncate(a, 0)

\* insert_slice_at_index (Copy elements): reserve, then ptr::copy of
\* len - index elements from data+len to data+len+slice.len(), then the slice
\* is copied to data+len, then set_len(len + slice.len()).
insert_slice_at_index(a, slice, index) ==
    LET b == reserve(a, Len(slice))
    IN  IF Faulted(b) THEN b
        ELSE LET l == len(b)
                 data_ptr == get_data_ptr_mut(b)
                 count == l - index
                 \* data_ptr_start = data_ptr.add(len)
                 moved == [j \in 1..count |-> Load(b, data_ptr, l + j - 1)]
                 readok == \A j \in 1..count : InBounds(b, data_ptr, l + j - 1)
                 \* the count slots copied lie at len and above: none of them
                 \* holds an element
                 b1 == IF count > 0 THEN Fault(b, "uninit_read") ELSE b
                 c == StoreRun(IF readok THEN b1 ELSE Fault(b1, "oob_read"),
                               data_ptr, l + Len(slice), moved)
                 d == StoreRun(c, data_ptr, l, slice)
             IN  set_len(d, l + Len(slice))

\* extend_from_slice: insert_slice_at_index at index len.
extend_from_slice(a, slice) == insert_slice_at_index(a, slice, len(a))

Min(m, n) == IF m <= n THEN m ELSE n

\* extend: reserve the size hint's lower bound, write items into the spare
\* slots under a LenScopeGuard (which stores the count on leaving the block),
\* push whatever the iterator still holds.
extend(a, items, lower_bound) ==
    LET b == reserve(a, lower_bound)
    IN  IF Faulted(b) THEN b
        ELSE LET t == meta_triple(b)
                 k == Min(t.cap - t.len, Len(items))
                 c == StoreRun(b, t.ptr, t.len, SubSeq(items, 1, k))
                 d == SetLen(c, t.lenref, t.len + k)
             IN  push_all(d, SubSeq(items, k + 1, Len(items)))

\* A guard whose Drop does not store the count back.
LenScopeGuard_forgets(a, lenref, temp) == a

\* Drop for LenScopeGuard: *real_ref = temp. It runs when the guard goes out
\* of scope: at the end of the block, at the return inside it, and when a
\* panic unwinds through it.
LenScopeGuard_drop(a, lenref, temp) == SetLen(a, lenref, temp)

\* extend with an iterator that yields items and panics in the next() that
\* follows them. The guarded loop writes items while spare slots and items
\* last, counting in the guard's temp; the panic comes either inside that
\* block (the unwinding drops the guard) or, when the block was left with the
\* slots full, in the for loop after the pushes already made. The result is
\* the array the unwinding leaves behind.
extend_unwinding(a, items, lower_bound) ==
    LET b == reserve(a, lower_bound)
    IN  IF Faulted(b) THEN b
        ELSE LET t == meta_triple(b)
                 written == Min(t.cap - t.len, Len(items))
                 c == StoreRun(b, t.ptr, t.len, SubSeq(items, 1, written))
                 d == LenScopeGuard_drop(c, t.lenref, t.len + written)
             IN  IF t.len + written < t.cap
                 THEN d                    \* next() panicked inside the block
                 ELSE push_all(d, SubSeq(items, written + 1, Len(items)))

\* The read of a call that reads no such bytes.
NoWild == [len |-> 0, alias |-> 0, crash |-> FALSE]

\* What a read of bytes that hold no (pointer, length) pair can produce:
\* either the process is killed by the wild copy or free that follows, or it
\* goes on with the length read (len) and with bytes that spell another
\* length after the call (alias).
WildReads(a) ==
    {[NoWild EXCEPT !.crash = TRUE]} \cup
    [len : 0..(a.N + MaxWild), alias : 0..MaxWild, crash : {FALSE}]

\* shrink. The first test returns when the array IS on the heap; an inline
\* array goes on, and since N >= len always holds there, the union is read
\* as a heap pair although it holds the inline slots.
shrink(a, w) ==
    IF went_off_stack(a) THEN a
    ELSE LET current_len == len(a)
         IN  IF stack_capacity(a) >= current_len
             THEN LET h == heap(a, w.len)
                  IN  IF a.shape = "heap"
                      THEN LET moved == [i \in 1..h.len |-> Load(a, h.ptr, i - 1)]
                               b == StoreRun(from_stack(a), "stack", 0, moved)
                           IN  [dealloc(b, h.ptr) EXCEPT !.cap = h.len]
                      ELSE IF w.crash THEN Fault(a, "crash")
                      ELSE \* len elements copied from a wild pointer, the wild
                           \* pointer freed, cap = the length read
                           LET b == [from_stack(a) EXCEPT !.heap_len = w.alias]
                               c == StoreRun(b, "stack", 0, [i \in 1..h.len |-> Garbage])
                           IN  [Fault(dealloc(c, h.ptr), "type_confusion") EXCEPT
                                   !.cap = h.len]
             ELSE IF get_capacity(a) > current_len
                  THEN grow_block(a, current_len)
                  ELSE a

\* Drop: a spilled array rebuilds the Vec (ptr, len, cap) and drops it, which
\* drops the len elements front to back and frees the block; an inline array
\* drops its slice in place.
drop(a) ==
    IF went_off_stack(a)
    THEN LET h == [ptr |-> a.heap_ptr, len |-> a.heap_len]
             elems == [i \in 1..h.len |-> Load(a, h.ptr, i - 1)]
         IN  [dealloc(drop_run(a, elems), h.ptr) EXCEPT !.alive = FALSE]
    ELSE [drop_run(a, deref(a)) EXCEPT !.alive = FALSE]

\* PartialEq<IArray<B>> for IArray<A>: self[..] == rhs[..].
eq(a, rhs) == deref(a) = deref(rhs)

(***************************************************************************)
(* IArray actions                                                          *)
(***************************************************************************)

\* What a call's record keeps of the array it was made on.
Summary(a) ==
    [elems |-> deref(a), len |-> len(a), capacity |-> get_capacity(a),
     spilled |-> went_off_stack(a)]

NoPush == [arg |-> <<>>, pre |-> Summary(new(SmallN, FALSE))]

\* The record of a call on array a: its name, its slice or value argument,
\* its integer argument, what it returned, the array before it and, for a
\* pop made right after a push, that push.
Called(op, arg, idx, val, a) ==
    [op |-> op, arg |-> arg, idx |-> idx, val |-> val, pre |-> Summary(a),
     after_push |-> op = "pop" /\ aret.op = "push",
     pushed |-> IF op = "pop" /\ aret.op = "push"
                THEN [arg |-> aret.arg, pre |-> aret.pre] ELSE NoPush]

Constructed(a) ==
    [op |-> "new", arg |-> <<>>, idx |-> 0, val |-> 0, pre |-> Summary(a),
     after_push |-> FALSE, pushed |-> NoPush]

\* The array can be called: it was not dropped and no call on it went wrong.
Live(a) == a.alive /\ ~Faulted(a)

\* No query was executed yet.
NoQuery == [kind |-> "none", items |-> <<>>]

QueryIdle == query = NoQuery /\ con = <<>> /\ invoked = <<>>

ParserIdle ==
    LET p == ParserNew(<<>>)
    IN  buffer = p.buffer /\ cursor = p.cursor /\ ret = p.ret

\* x becomes a2 by the call recorded as r; nothing else changes but xlog,
\* which the caller states.
OnX(a2, r) ==
    /\ x' = a2
    /\ aret' = r
    /\ UNCHANGED <<y, ylog, buffer, cursor, ret, qvars>>

Slices == SeqsUpTo(Vals, MaxSlice)

\* The next element of an instrumented type: each is made once.
Fresh == Len(xlog) + 1

FreshRun(k) == [i \in 1..k |-> Len(xlog) + i]

\* ---- calls on an array of Copy elements ----

FromVec(v) ==
    /\ Live(x) /\ aret.op = "new" /\ ~x.needs_drop
    /\ OnX(from_vec(x.N, FALSE, v), Called("from_vec", v.elems, v.capacity, 0, x))
    /\ UNCHANGED xlog

FromSlice(s) ==
    /\ Live(x) /\ aret.op = "new" /\ ~x.needs_drop
    /\ OnX(from_slice(x.N, s), Called("from_slice", s, 0, 0, x))
    /\ UNCHANGED xlog

Push(v) ==
    /\ Live(x) /\ ~x.needs_drop /\ len(x) < MaxLen
    /\ OnX(push(x, v), Called("push", <<v>>, 0, 0, x))
    /\ UNCHANGED xlog

Pop ==
    /\ Live(x)
    /\ OnX(pop(x), Called("pop", <<>>, 0, pop_value(x), x))
    /\ UNCHANGED xlog

Truncate(n) ==
    /\ Live(x)
    /\ OnX(truncate(x, n), Called("truncate", <<>>, n, 0, x))
    /\ UNCHANGED xlog

Clear ==
    /\ Live(x)
    /\ OnX(clear(x), Called("clear", <<>>, 0, 0, x))
    /\ UNCHANGED xlog

Extend(items, lower_bound) ==
    /\ Live(x) /\ ~x.needs_drop /\ len(x) + Len(items) <= MaxLen
    /\ OnX(extend(x, items, lower_bound), Called("extend", items, lower_bound, 0, x))
    /\ UNCHANGED xlog

ExtendFromSlice(s) ==
    /\ Live(x) /\ ~x.needs_drop /\ len(x) + Len(s) <= MaxLen
    /\ OnX(extend_from_slice(x, s), Called("extend_from_slice", s, len(x), 0, x))
    /\ UNCHANGED xlog

InsertSliceAtIndex(s, i) ==
    /\ Live(x) /\ ~x.needs_drop /\ len(x) + Len(s) <= MaxLen
    /\ i <= len(x)
    /\ OnX(insert_slice_at_index(x, s, i), Called("insert_slice_at_index", s, i, 0, x))
    /\ UNCHANGED xlog

Reserve(k) ==
    /\ Live(x)
    /\ OnX(reserve(x, k), Called("reserve", <<>>, k, 0, x))
    /\ UNCHANGED xlog

Shrink(w) ==
    /\ Live(x)
    /\ went_off_stack(x) => w = NoWild
    /\ OnX(shrink(x, w), Called("shrink", <<>>, 0, 0, x))
    /\ UNCHANGED xlog

Drop ==
    /\ Live(x)
    /\ OnX(drop(x), Called("drop", <<>>, 0, 0, x))
    /\ UNCHANGED xlog

AInit ==
    /\ ParserIdle
    /\ QueryIdle
    /\ x = new(SmallN, FALSE) /\ aret = Constructed(new(SmallN, FALSE))
    /\ y = new(SmallN, FALSE)
    /\ xlog = <<>> /\ ylog = <<>>

ANext ==
    \/ \E v \in Vecs(Slices) : FromVec(v)
    \/ \E s \in Slices : FromSlice(s)
    \/ \E v \in Vals : Push(v)
    \/ Pop
    \/ \E n \in 0..MaxLen : Truncate(n)
    \/ Clear
    \/ \E s \in Slices, lb \in 0..MaxReserve : Extend(s, lb)
    \/ \E s \in Slices : ExtendFromSlice(s)
    \/ \E s \in Slices, i \in 0..MaxLen : InsertSliceAtIndex(s, i)
    \/ \E k \in 0..MaxReserve : Reserve(k)
    \/ \E w \in WildReads(x) : Shrink(w)
    \/ Drop

\* An IArray<[u8; N]> under every call of its interface.
SpecArray == AInit /\ [][ANext]_vars

\* ---- calls on an array of instrumented elements (each has a destructor) ----

\* No more than MaxElems elements are ever made.
MaxElems == 5

PushFresh ==
    /\ Live(x) /\ x.needs_drop /\ Len(xlog) < MaxElems
    /\ OnX(push(x, Fresh), Called("push", <<Fresh>>, 0, 0, x))
    /\ xlog' = Append(xlog, Fresh)

ExtendFresh(k, lower_bound) ==
    /\ Live(x) /\ x.needs_drop /\ Len(xlog) + k <= MaxElems
    /\ OnX(extend(x, FreshRun(k), lower_bound),
           Called("extend", FreshRun(k), lower_bound, 0, x))
    /\ xlog' = xlog \o FreshRun(k)

\* extend whose iterator panics after k items; the panic is caught and the
\* array lives on.
ExtendUnwinding(k, lower_bound) ==
    /\ Live(x) /\ x.needs_drop /\ Len(xlog) + k <= MaxElems
    /\ OnX(extend_unwinding(x, FreshRun(k), lower_bound),
           Called("extend_unwinding", FreshRun(k), lower_bound, 0, x))
    /\ xlog' = xlog \o FreshRun(k)

DInit ==
    /\ ParserIdle
    /\ QueryIdle
    /\ x = new(SmallN, TRUE) /\ aret = Constructed(new(SmallN, TRUE))
    /\ y = new(SmallN, FALSE)
    /\ xlog = <<>> /\ ylog = <<>>

DNext ==
    \/ PushFresh
    \/ \E k \in 0..MaxSlice, lb \in 0..MaxReserve : ExtendFresh(k, lb)
    \/ \E k \in 0..MaxSlice, lb \in {0, MaxReserve} : ExtendUnwinding(k, lb)
    \/ Pop
    \/ \E n \in 0..MaxLen : Truncate(n)
    \/ Clear
    \/ Drop

\* An IArray of instrumented elements from new() to its drop.
SpecDrop == DInit /\ [][DNext]_vars

\* ---- an array adopted from a Vec of instrumented elements ----

\* from_vec of a Vec of k elements made for it, with spare capacity.
FromVecFresh(k, spare) ==
    /\ Live(x) /\ aret.op = "new" /\ x.needs_drop /\ xlog = <<>>
    /\ OnX(from_vec(x.N, TRUE, [elems |-> FreshRun(k), capacity |-> k + spare]),
           Called("from_vec", FreshRun(k), k + spare, 0, x))
    /\ xlog' = FreshRun(k)

VNext ==
    \/ \E k \in 0..MaxElems, spare \in 0..MaxSpare : FromVecFresh(k, spare)
    \/ Pop
    \/ \E n \in 0..MaxLen : Truncate(n)
    \/ Clear
    \/ Drop

\* An IArray built by from_vec from a Vec of instrumented elements, then
\* emptied or dropped; xlog holds the Vec's elements.
SpecFromVec == DInit /\ [][VNext]_vars

\* ---- two arrays of different inline capacities ----

\* Longest sequence the two compared arrays are built to.
MaxEqLen == 3

EqExtendFromSlice(s) ==
    /\ Live(x) /\ Len(xlog) + Len(s) <= MaxEqLen
    /\ x' = extend_from_slice(x, s)
    /\ xlog' = xlog \o s
    /\ UNCHANGED <<y, ylog, aret, buffer, cursor, ret, qvars>>

EqPush(v) ==
    /\ Live(y) /\ Len(ylog) < MaxEqLen
    /\ y' = push(y, v)
    /\ ylog' = Append(ylog, v)
    /\ UNCHANGED <<x, xlog, aret, buffer, cursor, ret, qvars>>

EInit ==
    /\ ParserIdle
    /\ QueryIdle
    /\ \E N \in StackSizes, M \in StackSizes :
          N # M /\ x = new(N, FALSE) /\ y = new(M, FALSE)
    /\ aret = Constructed(new(SmallN, FALSE))
    /\ xlog = <<>> /\ ylog = <<>>

ENext ==
    \/ \E s \in Slices : EqExtendFromSlice(s)
    \/ \E v \in Vals : EqPush(v)

\* x is built by extend_from_slice, y by push; xlog and ylog are what each
\* was given.
SpecEq == EInit /\ [][ENext]_vars

(***************************************************************************)
(* Parser actions                                                          *)
(***************************************************************************)

ArrayIdle ==
    /\ x = new(SmallN, FALSE) /\ y = new(SmallN, FALSE)
    /\ aret = Constructed(new(SmallN, FALSE))
    /\ xlog = <<>> /\ ylog = <<>>

PInit ==
    /\ \E buf \in Buffers :
          LET p == ParserNew(buf)
          IN  buffer = p.buffer /\ cursor = p.cursor /\ ret = p.ret
    /\ ArrayIdle
    /\ QueryIdle

\* A parser whose call panicked has unwound; nothing is called on it again.
Usable == ret.res # "Panic"

ReadUntil(k) ==
    /\ Usable
    /\ LET r == read_until(buffer, cursor, k)
       IN  /\ cursor' = r.cursor
           /\ ret' = [op |-> "read_until", from |-> cursor, arg |-> k, res |-> r.res,
                      val |-> 0, lo |-> r.lo, hi |-> r.hi]
    /\ UNCHANGED <<buffer, x, y, aret, xlog, ylog, qvars>>

ReadLine ==
    /\ Usable
    /\ LET r == read_line(buffer, cursor)
       IN  /\ cursor' = r.cursor
           /\ ret' = [op |-> "read_line", from |-> cursor, arg |-> 0, res |-> "Ok",
                      val |-> 0, lo |-> r.started_at, hi |-> r.stopped_at]
    /\ UNCHANGED <<buffer, x, y, aret, xlog, ylog, qvars>>

ReadSizeline ==
    /\ Usable
    /\ LET r == read_sizeline(buffer, cursor)
       IN  /\ cursor' = r.cursor
           /\ ret' = [op |-> "read_sizeline", from |-> cursor, arg |-> 0, res |-> r.res,
                      val |-> r.val, lo |-> 0, hi |-> 0]
    /\ UNCHANGED <<buffer, x, y, aret, xlog, ylog, qvars>>

ParseMetaframe ==
    /\ Usable
    /\ LET r == parse_metaframe(buffer, cursor)
       IN  /\ cursor' = r.cursor
           /\ ret' = [op |-> "parse_metaframe", from |-> cursor, arg |-> 0,
                      res |-> r.res, val |-> r.val, lo |-> 0, hi |-> 0]
    /\ UNCHANGED <<buffer, x, y, aret, xlog, ylog, qvars>>

ParseActiongroupSize ==
    /\ Usable
    /\ LET r == parse_actiongroup_size(buffer, cursor)
       IN  /\ cursor' = r.cursor
           /\ ret' = [op |-> "parse_actiongroup_size", from |-> cursor, arg |-> 0,
                      res |-> r.res, val |-> r.val, lo |-> 0, hi |-> 0]
    /\ UNCHANGED <<buffer, x, y, aret, xlog, ylog, qvars>>

PNext ==
    \/ \E k \in 0..MaxUntil : ReadUntil(k)
    \/ ReadLine
    \/ ReadSizeline
    \/ ParseMetaframe
    \/ ParseActiongroupSize

\* ---- parse_into_usize on its own ----

\* Longest byte string given to parse_into_usize.
MaxDigits == 3

\* Bytes given to parse_into_usize: CR, space, '+', '-', '/' (the byte before
\* '0'), the digits '0', '1', '9', and ':' (the byte after '9').
UsizeBytes == {13, 32, 43, 45, 47, 48, 49, 57, 58}

UsizeInputs == SeqsUpTo(UsizeBytes, MaxDigits) \cup {Digits(n) : n \in CountSamples}

UInit ==
    /\ \E bytes \in UsizeInputs :
          LET p == ParserNew(bytes)
          IN  buffer = p.buffer /\ cursor = p.cursor /\ ret = p.ret
    /\ ArrayIdle
    /\ QueryIdle

\* parse_into_usize(&buffer): an associated function, it moves no cursor.
ParseIntoUsize ==
    /\ ret.op = "new"
    /\ LET r == parse_into_usize(buffer)
       IN  ret' = [op |-> "parse_into_usize", from |-> 0, arg |-> 0, res |-> r.res,
                   val |-> r.val, lo |-> 0, hi |-> Len(buffer)]
    /\ UNCHANGED <<buffer, cursor, x, y, aret, xlog, ylog, qvars>>

UNext == ParseIntoUsize

\* parse_into_usize applied to every short byte string.
SpecUsize == UInit /\ [][UNext]_vars

\* A Parser over any buffer, under every call of its interface.
SpecParser == PInit /\ [][PNext]_vars

(***************************************************************************)
(* execute_simple                                                          *)
(***************************************************************************)

\* An upper-casing that leaves every byte as it is.
make_ascii_uppercase_keeps_case(w) == w

\* first.make_ascii_uppercase(): 'a'..'z' become 'A'..'Z', every other byte
\* stays as it is.
make_ascii_uppercase(w) ==
    [i \in 1..Len(w) |-> IF w[i] \in 97..122 THEN w[i] - 32 ELSE w[i]]

\* The arms of gen_constants_and_matches! in execute_simple, in order: the
\* bytes of stringify!($action) and the function registered for it.
\*   GET SET UPDATE DEL HEYA EXISTS MSET MGET MUPDATE SSET SDEL SUPDATE
\*   DBSIZE FLUSHDB USET KEYLEN MKSNAP LSKEYS POP CREATE DROP USE INSPECT MPOP
tags ==
    << [tag |-> <<71, 69, 84>>,                          fns |-> "actions::get::get"],
       [tag |-> <<83, 69, 84>>,                          fns |-> "actions::set::set"],
       [tag |-> <<85, 80, 68, 65, 84, 69>>,              fns |-> "actions::update::update"],
       [tag |-> <<68, 69, 76>>,                          fns |-> "actions::del::del"],
       [tag |-> <<72, 69, 89, 65>>,                      fns |-> "actions::heya::heya"],
       [tag |-> <<69, 88, 73, 83, 84, 83>>,              fns |-> "actions::exists::exists"],
       [tag |-> <<77, 83, 69, 84>>,                      fns |-> "actions::mset::mset"],
       [tag |-> <<77, 71, 69, 84>>,                      fns |-> "actions::mget::mget"],
       [tag |-> <<77, 85, 80, 68, 65, 84, 69>>,          fns |-> "actions::mupdate::mupdate"],
       [tag |-> <<83, 83, 69, 84>>,                      fns |-> "actions::strong::sset"],
       [tag |-> <<83, 68, 69, 76>>,                      fns |-> "actions::strong::sdel"],
       [tag |-> <<83, 85, 80, 68, 65, 84, 69>>,          fns |-> "actions::strong::supdate"],
       [tag |-> <<68, 66, 83, 73, 90, 69>>,              fns |-> "actions::dbsize::dbsize"],
       [tag |-> <<70, 76, 85, 83, 72, 68, 66>>,          fns |-> "actions::flushdb::flushdb"],
       [tag |-> <<85, 83, 69, 84>>,                      fns |-> "actions::uset::uset"],
       [tag |-> <<75, 69, 89, 76, 69, 78>>,              fns |-> "actions::keylen::keylen"],
       [tag |-> <<77, 75, 83, 78, 65, 80>>,              fns |-> "admin::mksnap::mksnap"],
       [tag |-> <<76, 83, 75, 69, 89, 83>>,              fns |-> "actions::lskeys::lskeys"],
       [tag |-> <<80, 79, 80>>,                          fns |-> "actions::pop::pop"],
       [tag |-> <<67, 82, 69, 65, 84, 69>>,              fns |-> "ddl::create"],
       [tag |-> <<68, 82, 79, 80>>,                      fns |-> "ddl::ddl_drop"],
       [tag |-> <<85, 83, 69>>,                          fns |-> "self::entity_swap"],
       [tag |-> <<73, 78, 83, 80, 69, 67, 84>>,          fns |-> "inspect::inspect"],
       [tag |-> <<77, 80, 79, 80>>,                      fns |-> "actions::mpop::mpop"] >>

\* What one call does: the responses it writes and the handlers it invokes.
Wrote(response) == [written |-> <<response>>, called |-> <<>>]

\* The first arm of the match whose tag equals first, or 0 for the `_` arm.
MatchArm(first) ==
    IF \E i \in 1..Len(tags) : tags[i].tag = first
    THEN CHOOSE i \in 1..Len(tags) :
            /\ tags[i].tag = first
            /\ \A j \in 1..(i - 1) : tags[j].tag # first
    ELSE 0

\* execute_simple(db, con, buf): an element that is not an AnyArray gets
\* WRONGTYPE_ERR; an empty array PACKET_ERR; otherwise the first item is
\* upper-cased and matched against the tags, the handler of the matching
\* arm being called with the iterator over the remaining items.
execute_simple(buf) ==
    IF buf.kind # "AnyArray"
    THEN Wrote("WRONGTYPE_ERR")
    ELSE IF buf.items = <<>>
         THEN Wrote("PACKET_ERR")
         ELSE LET first == make_ascii_uppercase(Head(buf.items))
                  arm   == MatchArm(first)
              IN  IF arm = 0
                  THEN Wrote("UNKNOWN_ACTION")
                  ELSE [written |-> <<>>,
                        called  |-> <<[fns |-> tags[arm].fns, buf |-> Tail(buf.items)]>>]

\* ---- the queries given to execute_simple ----

\* Most items after the verb.
MaxArgs == 1

\* Most error responses written to one connection.
MaxErrors == 2

\* w with every second letter in lower case, starting with the first.
MixedCase(w) == [i \in 1..Len(w) |-> IF i % 2 = 1 THEN w[i] + 32 ELSE w[i]]

LowerCase(w) == [i \in 1..Len(w) |-> w[i] + 32]

\* Every registered verb in upper, lower and mixed case.
VerbWords ==
    UNION {{tags[i].tag, LowerCase(tags[i].tag), MixedCase(tags[i].tag)} :
              i \in 1..Len(tags)}

\* First items that are no verb: the empty word, "GE", "GETX", "GET ",
\* "get" with the high bit set on its first byte, "'%4" ("GET" moved 32 down),
\* and "`ET", "{et", "@ET" (the bytes next to the two letter ranges).
OtherWords ==
    { <<>>, <<71, 69>>, <<71, 69, 84, 88>>, <<71, 69, 84, 32>>, <<231, 101, 116>>,
      <<39, 37, 52>>, <<96, 69, 84>>, <<123, 101, 116>>, <<64, 69, 84>> }

\* Items after the verb: "x", and "get", which is a verb in the first place
\* only.
ArgWords == { <<120>>, <<103, 101, 116>> }

\* The elements handed to execute_simple: arrays of any first item and up
\* to MaxArgs further items, the empty array, and elements of other kinds.
Elements ==
    {[kind |-> "AnyArray", items |-> <<w>> \o args] :
        w \in VerbWords \cup OtherWords, args \in SeqsUpTo(ArgWords, MaxArgs)}
    \cup {[kind |-> "AnyArray", items |-> <<>>]}
    \cup {[kind |-> k, items |-> <<>>] : k \in {"String", "UnsignedInt"}}

QInit ==
    /\ ParserIdle
    /\ ArrayIdle
    /\ QueryIdle

\* execute_simple(db, con, buf). A handler writes its own responses, with
\* code that is not part of this model, so the connection is followed up to
\* the first handler it reaches.
ExecuteSimple(buf) ==
    /\ invoked = <<>>
    /\ Len(con) < MaxErrors
    /\ LET r == execute_simple(buf)
       IN  /\ query' = buf
           /\ con' = con \o r.written
           /\ invoked' = invoked \o r.called
    /\ UNCHANGED <<pvars, avars>>

QNext == \E buf \in Elements : ExecuteSimple(buf)

\* A connection under every short run of simple queries.
SpecQuery == QInit /\ [][QNext]_vars

(***************************************************************************)
(* Properties                                                              *)
(***************************************************************************)

\* C1 (stated as claimed): after any sequence of calls on an IArray with
\* inline capacity N, 0 <= len() <= capacity(), the storage is inline exactly
\* when cap <= N and spilled exactly when cap > N, and capacity() is N while
\* inline and cap (> N) while spilled.
C1_ShapeFollowsCap ==
    x.alive =>
        /\ 0 <= len(x) /\ len(x) <= get_capacity(x)
        /\ (x.shape = "stack") <=> (x.cap <= x.N)
        /\ (x.shape = "heap") <=> (x.cap > x.N)
        /\ get_capacity(x) = IF x.shape = "stack" THEN x.N ELSE x.cap

Count(s, v) == Cardinality({i \in 1..Len(s) : s[i] = v})

\* C2: every element inserted by push or extend is at any time in exactly one
\* place: still in the array, moved out by one pop, or destroyed by one
\* destructor run; once the array is dropped it is no longer in the array, so
\* it was moved out exactly once or dropped exactly once. No destructor runs
\* on, and no pop returns, a slot that holds no element.
C2_EachElementOnce ==
    /\ \A i \in 1..Len(xlog) :
          Count(x.drops, xlog[i]) + Count(x.taken, xlog[i])
              + (IF x.alive THEN Count(deref(x), xlog[i]) ELSE 0) = 1
    /\ \A j \in 1..Len(x.drops) : x.drops[j] \in 1..Len(xlog)
    /\ \A j \in 1..Len(x.taken) : x.taken[j] \in 1..Len(xlog)
    /\ ~x.alive => ~x.mem.live /\ ~Faulted(x)

\* C2 witness: a spilled array is dropped after elements were popped and
\* others truncated away, and its drop destroys the elements it still held.
C2_Witness ==
    /\ aret.op = "drop" /\ aret.pre.spilled /\ aret.pre.len >= 2
    /\ Len(x.taken) >= 1 /\ Len(x.drops) > aret.pre.len
    /\ Len(xlog) = MaxElems

\* The type byte each of the two frame parsers expects.
TypeByteOf(op) == IF op = "parse_metaframe" THEN BANG ELSE AMP

FrameOps == {"parse_metaframe", "parse_actiongroup_size"}

\* C3: on a buffer that begins with the well-formed header of count n, the
\* frame parser of that header's type, called at cursor 0, returns Ok(n) and
\* leaves the cursor right after the header's second newline.
C3_HeaderParsed ==
    \A n \in Counts :
        (/\ ret.op \in FrameOps /\ ret.from = 0
         /\ IsPrefix(Header(TypeByteOf(ret.op), n), buffer))
        => /\ ret.res = "Ok" /\ ret.val = n
           /\ cursor = Len(Header(TypeByteOf(ret.op), n))

\* C3 witness: a group header with a nine-digit count (so a two-digit
\* sizeline), followed by one more byte, was parsed.
C3_Witness ==
    /\ ret.op = "parse_actiongroup_size" /\ ret.from = 0
    /\ IsPrefix(Header(AMP, 123456789), buffer) /\ Len(buffer) = 16
    /\ ret.res = "Ok" /\ ret.val = 123456789 /\ cursor = 15

IsDigit(b) == b >= ASCII_ZERO /\ b <= ASCII_ZERO + 9

RECURSIVE DecValue(_)
DecValue(ds) ==
    IF ds = <<>> THEN 0 ELSE 10 * DecValue(SubSeq(ds, 1, Len(ds) - 1)) + (ds[Len(ds)] - ASCII_ZERO)

\* Index of the first newline of b, 0 when it has none.
FirstLF(b) ==
    IF \E i \in 1..Len(b) : b[i] = LF
    THEN CHOOSE i \in 1..Len(b) : b[i] = LF /\ \A j \in 1..(i - 1) : b[j] # LF
    ELSE 0

\* b is a proper prefix of a frame '#' m LF T n LF of the wire grammar (m and n
\* runs of one or more digits, m the byte length of "T n").
ProperFramePrefix(b, type_byte) ==
    \/ b = <<>>
    \/ /\ b[1] = HASH
       /\ LET nl == FirstLF(b)
          IN  IF nl = 0
              THEN \A i \in 2..Len(b) : IsDigit(b[i])
              ELSE /\ nl > 2
                   /\ \A i \in 2..(nl - 1) : IsDigit(b[i])
                   /\ LET m == DecValue(SubSeq(b, 2, nl - 1))
                          rest == SubSeq(b, nl + 1, Len(b))
                      IN  /\ m >= 2
                          /\ Len(rest) <= m
                          /\ rest # <<>> => rest[1] = type_byte
                          /\ \A i \in 2..Len(rest) : IsDigit(rest[i])

\* C4 (stated as claimed): when a frame parser called at cursor 0 fails, the
\* error is NotEnough exactly when the buffer is a proper prefix of a valid
\* frame, and UnexpectedByte exactly when it is a prefix of none.
C4_ErrorTellsPrefix ==
    (ret.op \in FrameOps /\ ret.from = 0 /\ ret.res \in {"NotEnough", "UnexpectedByte"})
    => ((ret.res = "NotEnough") <=> ProperFramePrefix(buffer, TypeByteOf(ret.op)))

\* C5 (stated as claimed): on every buffer the frame parsers complete with
\* Ok, NotEnough or UnexpectedByte; none aborts with a panic.
C5_NeverPanics ==
    ret.op \in FrameOps => ret.res \in {"Ok", "NotEnough", "UnexpectedByte"}

\* C6 (stated as claimed): after any sequence of parser calls, failed or not,
\* 0 <= cursor <= buffer.len().
C6_CursorInBuffer == 0 <= cursor /\ cursor <= Len(buffer)

\* C7: a pop made right after push(v) returns v and leaves the length and
\* the elements as they were before the push.
C7_PushPop ==
    aret.after_push =>
        /\ aret.val = aret.pushed.arg[1]
        /\ deref(x) = aret.pushed.pre.elems
        /\ len(x) = aret.pushed.pre.len

\* C7 witness: the push found a full inline array and had to spill it, and
\* the pop that followed gave the pushed value back.
C7_Witness ==
    /\ aret.after_push
    /\ aret.pushed.pre.len = aret.pushed.pre.capacity /\ ~aret.pushed.pre.spilled
    /\ aret.pre.spilled /\ aret.val = aret.pushed.arg[1]
    /\ len(x) = SmallN

\* C8: after extend_from_slice(s) the elements are the former elements
\* followed by s, and the length grew by the length of s.
C8_ExtendFromSliceAppends ==
    aret.op = "extend_from_slice" =>
        /\ deref(x) = aret.pre.elems \o aret.arg
        /\ len(x) = aret.pre.len + Len(aret.arg)

\* C8 witness: a non-empty inline array was extended by a slice that made it
\* spill.
C8_Witness ==
    /\ aret.op = "extend_from_slice"
    /\ aret.pre.len > 0 /\ ~aret.pre.spilled /\ went_off_stack(x)
    /\ Len(aret.arg) = MaxSlice /\ deref(x) = aret.pre.elems \o aret.arg

\* C9: an array built by extend_from_slice and an array of another inline
\* capacity built by push compare equal, in either order, exactly when they
\* were given the same values in the same order.
C9_EqualIffSameSequence ==
    /\ eq(x, y) <=> (xlog = ylog)
    /\ eq(y, x) <=> (xlog = ylog)

\* C9 witness: the two arrays hold the same three elements, one spilled and
\* the other inline, and compare equal.
C9_Witness ==
    /\ xlog = ylog /\ Len(xlog) = MaxEqLen /\ eq(x, y)
    /\ went_off_stack(x) /\ ~went_off_stack(y)

\* C10 (stated as claimed): after insert_slice_at_index(s, i) with i <= L the
\* elements are e[0..i), then s, then e[i..L), and the length is L + |s|.
C10_InsertAtIndex ==
    aret.op = "insert_slice_at_index" =>
        /\ deref(x) = SubSeq(aret.pre.elems, 1, aret.idx) \o aret.arg
                        \o SubSeq(aret.pre.elems, aret.idx + 1, aret.pre.len)
        /\ len(x) = aret.pre.len + Len(aret.arg)

\* The reads shrink can make on array a: none of the union's bytes when a is
\* spilled, any wild read when it is inline.
ShrinkReads(a) == IF went_off_stack(a) THEN {NoWild} ELSE WildReads(a)

\* C11 (stated as claimed): shrink() on a spilled array of length <= N moves
\* it back inline with the same elements and releases the heap block; and
\* from any state a second shrink() leaves the elements, length, capacity and
\* representation that the first one left.
C11_ShrinkToInline ==
    /\ (aret.op = "shrink" /\ aret.pre.spilled /\ aret.pre.len <= x.N)
       => /\ ~Faulted(x)
          /\ ~went_off_stack(x) /\ x.shape = "stack"
          /\ deref(x) = aret.pre.elems
          /\ ~x.mem.live
    /\ Live(x)
       => \A w1 \in ShrinkReads(x) :
             LET once == shrink(x, w1)
             IN  \A w2 \in ShrinkReads(once) :
                    LET twice == shrink(once, w2)
                    IN  ~Faulted(twice) /\ Summary(twice) = Summary(once)

\* C12 (stated as claimed): shrink() on an inline array has no effect: cap,
\* the elements, len() and capacity() are as before, nothing is copied and
\* nothing is freed.
C12_InlineShrinkNoEffect ==
    (aret.op = "shrink" /\ ~aret.pre.spilled)
    => /\ x.faults = {}
       /\ Summary(x) = aret.pre
       /\ x.cap = aret.pre.len
       /\ x.shape = "stack"

\* The slots a drop of array a would run destructors on, in order.
DroppedByDrop(a) == SubSeq(drop(a).drops, Len(a.drops) + 1, Len(drop(a).drops))

\* C13: when the iterator given to extend panics while producing its k-th
\* item, the array is as long as before plus the k-1 items produced, it holds
\* the former elements followed by those items, and a drop of it runs the
\* destructors of exactly these and touches no uninitialised slot.
C13_UnwoundExtendKeepsWritten ==
    aret.op = "extend_unwinding" =>
        /\ ~Faulted(x)
        /\ len(x) = aret.pre.len + Len(aret.arg)
        /\ deref(x) = aret.pre.elems \o aret.arg
        /\ DroppedByDrop(x) = aret.pre.elems \o aret.arg
        /\ \A i \in 1..Len(DroppedByDrop(x)) : DroppedByDrop(x)[i] \notin {Uninit, Garbage}
        /\ ~Faulted(drop(x))

\* C13 witness: the array held one element inline, the iterator gave two
\* items with a size hint of 0 and then panicked: the first item was written
\* in the guarded block, the second pushed (spilling the array).
C13_Witness ==
    /\ aret.op = "extend_unwinding" /\ aret.idx = 0
    /\ aret.pre.len = 1 /\ ~aret.pre.spilled /\ Len(aret.arg) = 2
    /\ went_off_stack(x) /\ len(x) = 3

\* C14 (stated as claimed): the array made by from_vec(v) owns v's elements
\* alone: no element has its destructor run twice, none is destroyed while
\* the array still holds it, each was moved out or destroyed exactly once
\* when the array is gone, and the heap block is freed exactly once.
C14_FromVecOwnsOnce ==
    /\ \A i \in 1..Len(xlog) :
          LET v == xlog[i]
          IN  /\ Count(x.drops, v) + Count(x.taken, v) <= 1
              /\ (x.alive /\ Count(deref(x), v) > 0) => Count(x.drops, v) = 0
              /\ ~x.alive => Count(x.drops, v) + Count(x.taken, v) = 1
    /\ ~x.alive => ~x.mem.live /\ "bad_free" \notin x.faults

\* Index (1-based) of the first newline of b at or after index i, 0 when
\* there is none.
FirstLFFrom(b, i) ==
    IF \E j \in i..Len(b) : b[j] = LF
    THEN CHOOSE j \in i..Len(b) : b[j] = LF /\ \A k \in i..(j - 1) : b[k] # LF
    ELSE 0

\* A sizeline starts at cursor position from (0-based): '#', a run of digits,
\* a newline.
SizelineAt(b, from) ==
    /\ from >= 0 /\ from < Len(b) /\ b[from + 1] = HASH
    /\ FirstLFFrom(b, from + 2) # 0
    /\ \A i \in (from + 2)..(FirstLFFrom(b, from + 2) - 1) : IsDigit(b[i])

\* The digits of the sizeline at from, and the cursor position after it.
SizelineDigits(b, from) == SubSeq(b, from + 2, FirstLFFrom(b, from + 2) - 1)

SizelineEnd(b, from) == FirstLFFrom(b, from + 2)

\* C15 (stated as claimed): a frame parser returns Ok only when the bytes it
\* consumed are '#', digits, LF, the type byte, digits, LF, with the sizeline
\* equal to the length of the second line; the terminator it skipped is a
\* newline that is in the buffer.
C15_OkOnlyOnGrammar ==
    (ret.op \in FrameOps /\ ret.res = "Ok")
    => /\ cursor <= Len(buffer)
       /\ SizelineAt(buffer, ret.from)
       /\ LET nl == SizelineEnd(buffer, ret.from)
              m == DecValue(SizelineDigits(buffer, ret.from))
          IN  /\ SizelineDigits(buffer, ret.from) # <<>>
              /\ cursor = nl + m + 1
              /\ buffer[nl + 1] = TypeByteOf(ret.op)
              /\ \A i \in (nl + 2)..(cursor - 1) : IsDigit(buffer[i])
              /\ buffer[cursor] = LF
              /\ ret.val = DecValue(SubSeq(buffer, nl + 2, cursor - 1))

\* C16: when a valid sizeline of value m >= 1 is followed by at least m bytes
\* and the first of them is not the parser's type byte, the parser returns
\* UnexpectedByte.
C16_WrongTypeRejected ==
    (/\ ret.op \in FrameOps
     /\ SizelineAt(buffer, ret.from)
     /\ DecValue(SizelineDigits(buffer, ret.from)) >= 1
     /\ Len(buffer) - SizelineEnd(buffer, ret.from)
            >= DecValue(SizelineDigits(buffer, ret.from))
     /\ buffer[SizelineEnd(buffer, ret.from) + 1] # TypeByteOf(ret.op))
    => ret.res = "UnexpectedByte"

\* C16 witness: a whole group header was given to parse_metaframe and
\* rejected.
C16_Witness ==
    /\ ret.op = "parse_metaframe" /\ ret.from = 0
    /\ buffer = Header(AMP, 12345)
    /\ ret.res = "UnexpectedByte"

\* C19: read_sizeline called with the cursor at a '#' that is followed by a
\* run of digits and a newline returns the decimal value of the digits and
\* leaves the cursor right after that newline.
C19_SizelineRead ==
    (ret.op = "read_sizeline" /\ SizelineAt(buffer, ret.from))
    => /\ ret.res = "Ok"
       /\ ret.val = DecValue(SizelineDigits(buffer, ret.from))
       /\ cursor = SizelineEnd(buffer, ret.from)

\* C19 witness: the two-digit sizeline "#10\n" was read from cursor 0.
C19_Witness ==
    /\ ret.op = "read_sizeline" /\ ret.from = 0
    /\ IsPrefix(<<HASH, ASCII_ZERO + 1, ASCII_ZERO, LF>>, buffer)
    /\ ret.res = "Ok" /\ ret.val = 10 /\ cursor = 4

\* C20 (stated as claimed): when read_sizeline returns UnexpectedByte the
\* cursor is where it was before the call.
C20_SizelineErrorKeepsCursor ==
    (ret.op = "read_sizeline" /\ ret.res = "UnexpectedByte") => cursor = ret.from

\* C17: a truncate(n) with n < len runs the destructors of the elements at
\* len-1 down to n, in that order, and leaves the first n elements; with
\* n >= len it does nothing; clear() does what truncate(0) does; the capacity
\* and the representation stay as they were.
C17_TruncateDropsTail ==
    [][(aret'.op \in {"truncate", "clear"} /\ Live(x))
       => LET n == aret'.idx
              L == len(x)
              e == deref(x)
          IN  /\ ~Faulted(x') /\ x'.alive
              /\ IF n < L
                 THEN /\ x'.drops = x.drops \o [i \in 1..(L - n) |-> e[L - i + 1]]
                      /\ len(x') = n
                      /\ deref(x') = SubSeq(e, 1, n)
                 ELSE /\ x'.drops = x.drops
                      /\ len(x') = L
                      /\ deref(x') = e
              /\ x'.taken = x.taken
              /\ get_capacity(x') = get_capacity(x)
              /\ went_off_stack(x') = went_off_stack(x)
              /\ x'.shape = x.shape /\ x'.mem.live = x.mem.live]_vars

\* C17 witness: truncate cut a spilled array by at least two elements, and
\* the last destructor run was that of the element at index n.
C17_Witness ==
    /\ aret.op = "truncate" /\ aret.pre.spilled
    /\ aret.idx >= 1 /\ aret.idx + 2 <= aret.pre.len
    /\ len(x) = aret.idx /\ went_off_stack(x)
    /\ Len(x.drops) >= 2
    /\ x.drops[Len(x.drops)] = aret.pre.elems[aret.idx + 1]

\* C18 (stated as claimed): no call reads a slot at index >= len, reads the
\* bytes of one storage shape as the other, or writes a slot at index >=
\* capacity().
C18_NoWildAccess ==
    x.faults \cap {"uninit_read", "oob_read", "type_confusion", "oob_write"} = {}

\* C21: a read_until(k) made at cursor c succeeds exactly when c + k is at
\* most the buffer's length; it then returns the k bytes from c on and leaves
\* the cursor at c + k; otherwise it returns NotEnough and leaves the cursor
\* at c. The buffer is the same after the call.
C21_ReadUntil ==
    [][ret'.op = "read_until"
       => LET k == ret'.arg
          IN  /\ buffer' = buffer
              /\ ret'.from = cursor
              /\ IF cursor + k <= Len(buffer)
                 THEN /\ ret'.res = "Ok"
                      /\ Slice(buffer, ret'.lo, ret'.hi) = SubSeq(buffer, cursor + 1, cursor + k)
                      /\ ret'.hi - ret'.lo = k
                      /\ cursor' = cursor + k
                 ELSE /\ ret'.res = "NotEnough"
                      /\ cursor' = cursor]_vars

\* C21 witness: a read_until made past the start of the buffer took the
\* last MaxUntil bytes of it.
C21_Witness ==
    /\ ret.op = "read_until" /\ ret.res = "Ok"
    /\ ret.from > 0 /\ ret.arg = MaxUntil
    /\ cursor = Len(buffer) /\ cursor = ret.from + MaxUntil

\* c is the smallest power of two that is at least n (n >= 1).
SmallestPow2AtLeast(c, n) ==
    /\ c >= n
    /\ \E e \in 0..(n + 1) : c = 2 ^ e
    /\ c = 1 \/ c \div 2 < n

\* C22: reserve(additional) changes nothing when capacity() - len() is at
\* least additional; otherwise the capacity becomes the next power of two of
\* len() + additional; either way capacity() - len() >= additional afterwards
\* and the length and the elements are as before.
C22_Reserve ==
    [][(aret'.op = "reserve" /\ Live(x))
       => LET additional == aret'.idx
              L == len(x)
              C == get_capacity(x)
          IN  /\ ~Faulted(x') /\ x'.alive
              /\ len(x') = L /\ deref(x') = deref(x)
              /\ get_capacity(x') - len(x') >= additional
              /\ IF C - L >= additional
                 THEN x' = x
                 ELSE SmallestPow2AtLeast(get_capacity(x'), L + additional)]_vars

\* C22 witness: a spilled array whose capacity of 3 was adopted from a Vec
\* was full, and reserve grew it to 4 with its elements kept.
C22_Witness ==
    /\ aret.op = "reserve" /\ aret.idx >= 1
    /\ aret.pre.spilled /\ aret.pre.capacity = 3 /\ aret.pre.len = 3
    /\ get_capacity(x) = 4 /\ deref(x) = aret.pre.elems /\ x.faults = {}

\* C23: push(v) on a full array first grows the capacity to the next power of
\* two of len + 1, which leaves the array spilled (from inline or from a
\* smaller heap block), with the elements kept in order; push on an array
\* that is not full changes neither capacity nor representation. In every
\* case v ends up at index len and the length grows by one.
C23_PushGrows ==
    [][(aret'.op = "push" /\ Live(x))
       => LET v == aret'.arg[1]
              L == len(x)
              C == get_capacity(x)
          IN  /\ ~Faulted(x') /\ x'.alive
              /\ len(x') = L + 1
              /\ deref(x') = Append(deref(x), v)
              /\ IF L = C
                 THEN /\ SmallestPow2AtLeast(get_capacity(x'), L + 1)
                      /\ went_off_stack(x') /\ x'.shape = "heap"
                      /\ x'.mem.live /\ x'.mem.size = get_capacity(x')
                 ELSE /\ get_capacity(x') = C
                      /\ went_off_stack(x') = went_off_stack(x)
                      /\ x'.shape = x.shape]_vars

\* C23 witness: the array was spilled and full with the capacity 3 adopted
\* from a Vec; the push reallocated to 4 and put the value at index 3.
C23_Witness ==
    /\ aret.op = "push"
    /\ aret.pre.spilled /\ aret.pre.capacity = 3 /\ aret.pre.len = 3
    /\ get_capacity(x) = 4 /\ len(x) = 4
    /\ deref(x) = Append(aret.pre.elems, aret.arg[1])

\* C24: parse_into_usize returns the decimal value of its input when every
\* byte is one of '0'..'9', and UnexpectedByte when any byte is not, bytes
\* below '0' ('+', space, CR) included.
C24_ParseIntoUsize ==
    ret.op = "parse_into_usize" =>
        IF \A i \in 1..Len(buffer) : IsDigit(buffer[i])
        THEN ret.res = "Ok" /\ ret.val = DecValue(buffer)
        ELSE ret.res = "UnexpectedByte"

\* C24 witness: "+1" was rejected.
C24_Witness ==
    /\ ret.op = "parse_into_usize"
    /\ buffer = <<43, ASCII_ZERO + 1>>
    /\ ret.res = "UnexpectedByte"

\* Byte offset of header j (counted from 0) in the concatenation of hs; with
\* j = Len(hs) it is the length of the whole buffer.
HeaderOffset(hs, j) == Len(Concat(SubSeq(hs, 1, j)))

\* C25: on a buffer made of a well-formed metaframe followed by k well-formed
\* action-group headers, parse_metaframe called at the start, and each
\* parse_actiongroup_size called where the previous call left the cursor,
\* succeeds, returns the count of its own header and leaves the cursor at the
\* start of the next header; the cursor does not decrease, and after the
\* k-th group it equals buffer.len().
C25_QueryHeadersInOrder ==
    [][(ret'.op \in FrameOps /\ buffer \in QueryBuffers)
       => \A q \in QueryShapes :
             QueryBytes[q] = buffer
             => LET m      == q[1]
                    groups == q[2]
                    hs     == QueryHeaders(m, groups)
                    k      == Len(groups)
                IN  \A j \in 0..k :
                       (/\ cursor = HeaderOffset(hs, j)
                        /\ ret'.op = (IF j = 0 THEN "parse_metaframe"
                                      ELSE "parse_actiongroup_size"))
                       => /\ ret'.res = "Ok"
                          /\ ret'.from = cursor
                          /\ ret'.val = (IF j = 0 THEN m ELSE groups[j])
                          /\ cursor' = HeaderOffset(hs, j + 1)
                          /\ cursor' >= cursor
                          /\ buffer' = buffer
                          /\ (j = k => cursor' = Len(buffer))]_vars

\* C25 witness: the last of MaxGroups group headers was parsed from where the
\* previous header ends, and the cursor is at the end of the buffer.
C25_Witness ==
    LET groups == <<12345, 12>>
        hs == QueryHeaders(MaxGroups, groups)
    IN  /\ Len(groups) = 2
        /\ buffer = Concat(hs)
        /\ ret.op = "parse_actiongroup_size"
        /\ ret.res = "Ok"
        /\ ret.val = 12
        /\ ret.from = HeaderOffset(hs, 2)
        /\ cursor = Len(buffer)

\* w spells the upper-case word tag, in any mix of cases.
SameLetters(w, tag) ==
    /\ Len(w) = Len(tag)
    /\ \A i \in 1..Len(w) : w[i] = tag[i] \/ w[i] = tag[i] + 32

\* C26: execute_simple writes exactly one WRONGTYPE_ERR when the element is
\* not an array, exactly one PACKET_ERR when the array is empty, exactly one
\* UNKNOWN_ACTION when the first item spells no registered verb in any mix of
\* cases, and invokes no handler in these three cases; otherwise it writes
\* nothing itself and invokes exactly the handler registered for the verb,
\* passing the remaining items.
C26_Dispatch ==
    [][query' # NoQuery
       => LET buf == query'
              ErrorOnly(response) ==
                  con' = Append(con, response) /\ invoked' = invoked
          IN  IF buf.kind # "AnyArray"
              THEN ErrorOnly("WRONGTYPE_ERR")
              ELSE IF buf.items = <<>>
                   THEN ErrorOnly("PACKET_ERR")
                   ELSE IF \A i \in 1..Len(tags) : ~SameLetters(Head(buf.items), tags[i].tag)
                        THEN ErrorOnly("UNKNOWN_ACTION")
                        ELSE /\ con' = con
                             /\ Len(invoked') = Len(invoked) + 1
                             /\ \A i \in 1..Len(tags) :
                                   SameLetters(Head(buf.items), tags[i].tag)
                                   => invoked'[Len(invoked')] =
                                         [fns |-> tags[i].fns, buf |-> Tail(buf.items)]
                             /\ SubSeq(invoked', 1, Len(invoked)) = invoked]_vars

\* C26 witness: after "GETX" was refused, "dRoP get" reached ddl::ddl_drop
\* with the one item "get", untouched.
C26_Witness ==
    /\ con = <<"UNKNOWN_ACTION">>
    /\ query = [kind |-> "AnyArray", items |-> << <<100, 82, 111, 80>>, <<103, 101, 116>> >>]
    /\ invoked = <<[fns |-> "ddl::ddl_drop", buf |-> << <<103, 101, 116>> >>]>>

====
